---- MODULE Spec2Model ----
(***************************************************************************)
(* Line editing engine of the KASER file manager.                          *)
(*                                                                         *)
(* Two editing implementations are modelled, each as one session:          *)
(*   - the standalone editor, SimpleEditor (src/editor.py), and            *)
(*   - the viewer with inline editing, FileManager.nano_like_viewer        *)
(*     (src/file_manager.py).                                              *)
(* A text is a sequence of one-character strings; a line of the buffer is  *)
(* a text that carries its terminator "\n" as its last character, as the   *)
(* lines returned by readlines() do.  Indices are 0-based as in the source *)
(* (line i of the source is element i+1 of the TLA+ sequence).             *)
(***************************************************************************)
EXTENDS Integers, Sequences, FiniteSets, TLC

VARIABLES
    pc,               \* which loop is running: "editor", "viewer", "quit", "raised"
    key,              \* the token most recently returned by get_key
    lines,            \* the Line Buffer (self.lines / local lines)
    current_line,     \* current line index
    insert_mode,      \* TRUE = insert, FALSE = overwrite
    cursor_pos,       \* SimpleEditor.cursor_pos
    modified,         \* SimpleEditor.modified
    cursor_position,  \* viewer: column of the inline cursor
    modified_lines,   \* viewer: the Overlay, line index -> pending line
    file_modified,    \* viewer: unsaved-changes flag
    editing_line,     \* viewer: TRUE while InlineEdit is active
    current_edit_line,\* viewer: index of the line being edited inline
    edit_mode,        \* viewer: TRUE once edit mode was switched on with E
    search_term,      \* viewer: the term of the last search, empty if none
    search_results,   \* viewer: line indices found by the last search
    search_index,     \* viewer: position in search_results of the current match
    disk,             \* the file at file_path
    backup,           \* the file at file_path + ".bak"
    save_result,      \* outcome of the save run by the last token, else "none"
    saving,           \* the save_file call traced step by step, if any
    confirm,          \* answer to the confirmation the last token asked for
    ops               \* editing tokens and save requests handled so far

vars == <<pc, key, lines, current_line, insert_mode, cursor_pos, modified,
          cursor_position, modified_lines, file_modified, editing_line,
          current_edit_line, edit_mode, search_term, search_results,
          search_index, disk, backup, save_result, saving, confirm,
          ops>>

editorVars == <<cursor_pos, modified>>
searchVars == <<search_term, search_results, search_index>>
viewerVars == <<cursor_position, modified_lines, file_modified, editing_line,
                current_edit_line, edit_mode, searchVars>>
fsVars == <<disk, backup, saving>>

(***************************************************************************)
(* Bounds of the model.                                                    *)
(***************************************************************************)
\* editing tokens (characters, Enter, Backspace, Delete, prompted input) and
\* save requests accepted per session
MaxOps == 2

\* printable characters delivered as PrintableChar tokens
Chars == {"a", "F"}

\* most lines of a file opened for navigation
MaxLines == 8

NL == "\n"
CR == "\r"
SP == " "

(***************************************************************************)
(* Python string and list primitives.                                      *)
(***************************************************************************)
Min(a, b) == IF a < b THEN a ELSE b
Max(a, b) == IF a > b THEN a ELSE b

\* s[:n] for n >= 0
Upto(s, n) == SubSeq(s, 1, Min(n, Len(s)))
\* s[n:] for n >= 0
From(s, n) == SubSeq(s, Min(n, Len(s)) + 1, Len(s))

\* s.rstrip('\n\r')
RECURSIVE rstrip(_)
rstrip(s) ==
    IF s # <<>> /\ s[Len(s)] \in {NL, CR}
    THEN rstrip(SubSeq(s, 1, Len(s) - 1))
    ELSE s

\* s.strip(): leading and trailing whitespace removed
RECURSIVE strip(_)
strip(s) ==
    IF s # <<>> /\ s[1] \in {SP, NL, CR} THEN strip(Tail(s))
    ELSE IF s # <<>> /\ s[Len(s)] \in {SP, NL, CR}
         THEN strip(SubSeq(s, 1, Len(s) - 1))
         ELSE s

\* f.readlines(): the text cut after every "\n", terminators kept
RECURSIVE readlines_from(_, _)
readlines_from(data, cur) ==
    IF data = <<>>
    THEN IF cur = <<>> THEN <<>> ELSE <<cur>>
    ELSE IF Head(data) = NL
         THEN <<Append(cur, NL)>> \o readlines_from(Tail(data), <<>>)
         ELSE readlines_from(Tail(data), Append(cur, Head(data)))

readlines(data) == readlines_from(data, <<>>)

\* for line in ls: f.write(line)
RECURSIVE written(_)
written(ls) == IF ls = <<>> THEN <<>> ELSE Head(ls) \o written(Tail(ls))

\* list.insert(i, x) for 0 <= i <= len
list_insert(ls, i, x) == SubSeq(ls, 1, i) \o <<x>> \o SubSeq(ls, i + 1, Len(ls))
\* list.pop(i) for 0 <= i < len
list_pop(ls, i) == SubSeq(ls, 1, i) \o SubSeq(ls, i + 2, Len(ls))
\* ls[i] = x
list_set(ls, i, x) == [ls EXCEPT ![i + 1] = x]

(***************************************************************************)
(* Files.                                                                  *)
(***************************************************************************)
NoFile == [exists |-> FALSE, data |-> <<>>]
File(d) == [exists |-> TRUE, data |-> d]

\* no save_file call has been traced: pre is the file as the call found it,
\* buf the text read from it, n the number of buffer lines written so far
NoSave == [pre |-> NoFile, buf |-> <<>>, n |-> 0]

\* the files a session may be opened on
InitialFiles ==
    { NoFile,
      File(<<>>),
      File(<<"a", "F", NL, "a">>) }

\* where a save can fail: opening or writing the backup, opening or writing
\* the file itself
Failures == {"none", "backup_open", "backup_write", "file_open", "file_write"}

(***************************************************************************)
(* Persistence: SimpleEditor.save_file and FileManager.save_file_changes.  *)
(* Each returns the files left behind and the outcome, for a failure       *)
(* injected at `fail`; k is the number of write calls that completed       *)
(* before a failing write.                                                 *)
(***************************************************************************)
Saved(d, b, r) == [disk |-> d, backup |-> b, result |-> r]

\* save_file that opens the file for appending instead of truncating it
save_file_appending(d, b, ls, fail, k) ==
    IF d.exists /\ fail = "backup_open"
    THEN Saved(d, b, "backup_failed")
    ELSE IF d.exists /\ fail = "backup_write"
    THEN Saved(d, File(<<>>), "backup_failed")
    ELSE LET b2 == IF d.exists THEN File(d.data) ELSE b IN
         IF fail = "file_open"
         THEN Saved(d, b2, "write_failed")
         ELSE IF fail = "file_write" /\ k < Len(ls)
         THEN Saved(File(d.data \o written(Upto(ls, k))), b2, "write_failed")
         ELSE Saved(File(d.data \o written(ls)), b2, "ok")

\* SimpleEditor.save_file: the backup is a copy of the file read back from
\* disk, taken only if the file exists, written by a single write call
save_file(d, b, ls, fail, k) ==
    IF d.exists /\ fail = "backup_open"
    THEN Saved(d, b, "backup_failed")
    ELSE IF d.exists /\ fail = "backup_write"
    THEN Saved(d, File(<<>>), "backup_failed")
    ELSE LET b2 == IF d.exists THEN File(d.data) ELSE b IN
         IF fail = "file_open"
         THEN Saved(d, b2, "write_failed")
         ELSE IF fail = "file_write" /\ k < Len(ls)
         THEN Saved(File(written(Upto(ls, k))), b2, "write_failed")
         ELSE Saved(File(written(ls)), b2, "ok")

\* the lines save_file_changes writes: the overlay entry where there is one,
\* else the buffer line, for the indices of the buffer
merged(original_lines, overlay) ==
    [i \in 1..Len(original_lines) |->
        IF (i - 1) \in DOMAIN overlay THEN overlay[i - 1] ELSE original_lines[i]]

\* save_file_changes with the backup failure swallowed: the write goes ahead
save_file_changes_unguarded(d, b, original_lines, overlay, fail, k) ==
    IF fail = "backup_open"
    THEN Saved(File(written(merged(original_lines, overlay))), b, "backup_failed")
    ELSE IF fail = "backup_write" /\ k < Len(original_lines)
    THEN Saved(File(written(merged(original_lines, overlay))),
               File(written(Upto(original_lines, k))), "backup_failed")
    ELSE LET b2 == File(written(original_lines)) IN
         IF fail = "file_open"
         THEN Saved(d, b2, "write_failed")
         ELSE IF fail = "file_write" /\ k < Len(original_lines)
         THEN Saved(File(written(Upto(merged(original_lines, overlay), k))),
                    b2, "write_failed")
         ELSE Saved(File(written(merged(original_lines, overlay))), b2, "ok")

\* FileManager.save_file_changes: the backup is written from the in-memory
\* buffer, line by line, then the merged lines are written to the file
save_file_changes(d, b, original_lines, overlay, fail, k) ==
    IF fail = "backup_open"
    THEN Saved(d, b, "backup_failed")
    ELSE IF fail = "backup_write" /\ k < Len(original_lines)
    THEN Saved(d, File(written(Upto(original_lines, k))), "backup_failed")
    ELSE LET b2 == File(written(original_lines)) IN
         IF fail = "file_open"
         THEN Saved(d, b2, "write_failed")
         ELSE IF fail = "file_write" /\ k < Len(original_lines)
         THEN Saved(File(written(Upto(merged(original_lines, overlay), k))),
                    b2, "write_failed")
         ELSE Saved(File(written(merged(original_lines, overlay))), b2, "ok")

\* the write calls after which an injected write failure can strike
WriteCalls(ls, fail) ==
    IF fail \in {"backup_write", "file_write"} /\ ls # <<>>
    THEN 0..(Len(ls) - 1)
    ELSE {0}

(***************************************************************************)
(* Session start.                                                          *)
(***************************************************************************)
\* SimpleEditor.__init__ followed by load_file
EditorInit(f) ==
    /\ pc = "editor"
    /\ lines = IF f.exists THEN readlines(f.data) ELSE << <<>> >>
    /\ current_line = 0
    /\ cursor_pos = 0
    /\ insert_mode = TRUE
    /\ modified = FALSE
    /\ cursor_position = 0
    /\ modified_lines = <<>>
    /\ file_modified = FALSE
    /\ editing_line = FALSE
    /\ current_edit_line = 0
    /\ edit_mode = FALSE
    /\ search_term = <<>>
    /\ search_results = <<>>
    /\ search_index = 0

\* nano_like_viewer up to its loop: a file that cannot be read or has no
\* lines ends the viewer at once
ViewerInit(f) ==
    /\ lines = IF f.exists THEN readlines(f.data) ELSE <<>>
    /\ pc = IF f.exists /\ lines # <<>> THEN "viewer" ELSE "quit"
    /\ current_line = 0
    /\ cursor_pos = 0
    /\ insert_mode = TRUE
    /\ modified = FALSE
    /\ cursor_position = 0
    /\ modified_lines = <<>>
    /\ file_modified = FALSE
    /\ editing_line = FALSE
    /\ current_edit_line = 0
    /\ edit_mode = FALSE
    /\ search_term = <<>>
    /\ search_results = <<>>
    /\ search_index = 0

Init ==
    \E f \in InitialFiles :
        /\ disk = f
        /\ backup = NoFile
        /\ saving = NoSave
        /\ key = ""
        /\ confirm = "none"
        /\ save_result = "none"
        /\ ops = 0
        /\ (EditorInit(f) \/ ViewerInit(f))

(***************************************************************************)
(* The standalone editor: SimpleEditor.handle_input, one action per branch *)
(* of its key dispatch.  self.lines[self.current_line] raises IndexError   *)
(* when the buffer has no such line; run() does not catch it, so the       *)
(* session ends ("raised").                                                *)
(***************************************************************************)
HasLine == current_line < Len(lines)

\* self.lines[self.current_line].rstrip('\n\r')
EditorContent == rstrip(lines[current_line + 1])

\* an exception leaves handle_input and run()
EditorRaise(k) ==
    /\ pc' = "raised"
    /\ key' = k
    /\ confirm' = "none"
    /\ save_result' = "none"
    /\ UNCHANGED <<lines, current_line, insert_mode, editorVars, viewerVars,
                   fsVars, ops>>

\* what every branch that returns 'CONTINUE' without saving leaves alone
EditorStep(k) ==
    /\ pc = "editor"
    /\ pc' = pc
    /\ key' = k
    /\ confirm' = "none"
    /\ save_result' = "none"
    /\ UNCHANGED <<viewerVars, fsVars>>

EditorUp ==
    /\ EditorStep("UP")
    /\ IF current_line > 0
       THEN /\ current_line' = current_line - 1
            /\ cursor_pos' = Min(cursor_pos, Len(rstrip(lines[current_line])))
       ELSE UNCHANGED <<current_line, cursor_pos>>
    /\ UNCHANGED <<lines, insert_mode, modified, ops>>

\* DOWN without the re-clamp of the column to the new line
EditorDown_unclamped ==
    /\ EditorStep("DOWN")
    /\ IF current_line < Len(lines) - 1
       THEN /\ current_line' = current_line + 1
            /\ cursor_pos' = cursor_pos
       ELSE UNCHANGED <<current_line, cursor_pos>>
    /\ UNCHANGED <<lines, insert_mode, modified, ops>>

EditorDown ==
    /\ EditorStep("DOWN")
    /\ IF current_line < Len(lines) - 1
       THEN /\ current_line' = current_line + 1
            /\ cursor_pos' = Min(cursor_pos, Len(rstrip(lines[current_line + 2])))
       ELSE UNCHANGED <<current_line, cursor_pos>>
    /\ UNCHANGED <<lines, insert_mode, modified, ops>>

EditorLeft ==
    /\ EditorStep("LEFT")
    /\ cursor_pos' = IF cursor_pos > 0 THEN cursor_pos - 1 ELSE cursor_pos
    /\ UNCHANGED <<lines, current_line, insert_mode, modified, ops>>

EditorRight ==
    /\ pc = "editor"
    /\ IF HasLine
       THEN /\ EditorStep("RIGHT")
            /\ cursor_pos' = IF cursor_pos < Len(EditorContent)
                             THEN cursor_pos + 1 ELSE cursor_pos
            /\ UNCHANGED <<lines, current_line, insert_mode, modified, ops>>
       ELSE EditorRaise("RIGHT")

EditorHome ==
    /\ EditorStep("HOME")
    /\ cursor_pos' = 0
    /\ UNCHANGED <<lines, current_line, insert_mode, modified, ops>>

EditorEnd ==
    /\ pc = "editor"
    /\ IF HasLine
       THEN /\ EditorStep("END")
            /\ cursor_pos' = Len(EditorContent)
            /\ UNCHANGED <<lines, current_line, insert_mode, modified, ops>>
       ELSE EditorRaise("END")

\* INSERT that switches insert mode on instead of toggling it
EditorInsert_set ==
    /\ EditorStep("INSERT")
    /\ insert_mode' = TRUE
    /\ UNCHANGED <<lines, current_line, cursor_pos, modified, ops>>

EditorInsert ==
    /\ EditorStep("INSERT")
    /\ insert_mode' = ~insert_mode
    /\ UNCHANGED <<lines, current_line, cursor_pos, modified, ops>>

\* the line after typing ch at column pos (insert or overwrite)
editor_typed(content, pos, ch, ins) ==
    IF ins
    THEN Upto(content, pos) \o <<ch>> \o From(content, pos)
    ELSE IF pos < Len(content)
         THEN Upto(content, pos) \o <<ch>> \o From(content, pos + 1)
         ELSE content \o <<ch>>

\* the key 'F' goes to handle_special_character_input, whose first statement
\* calls get_text with two arguments; get_text takes one, so a TypeError
\* leaves handle_input before any character is read or typed
EditorKeyF ==
    /\ pc = "editor"
    /\ EditorRaise("F")

\* the buffer after Enter at column pos of line i
editor_split(ls, i, pos) ==
    LET content == rstrip(ls[i + 1]) IN
    IF pos < Len(content)
    THEN list_insert(list_set(ls, i, Upto(content, pos) \o <<NL>>),
                     i + 1, From(content, pos) \o <<NL>>)
    ELSE list_insert(ls, i + 1, <<NL>>)

EditorEnter ==
    /\ pc = "editor"
    /\ ops < MaxOps
    /\ IF HasLine
       THEN /\ EditorStep("ENTER")
            /\ lines' = editor_split(lines, current_line, cursor_pos)
            /\ current_line' = current_line + 1
            /\ cursor_pos' = 0
            /\ modified' = TRUE
            /\ ops' = ops + 1
            /\ UNCHANGED insert_mode
       ELSE EditorRaise("ENTER")

\* the buffer after Backspace at column 0 of line i > 0
editor_join(ls, i) ==
    list_pop(list_set(ls, i - 1, rstrip(ls[i]) \o rstrip(ls[i + 1]) \o <<NL>>), i)

\* the line after Backspace at column pos > 0
editor_rubout(content, pos) == Upto(content, pos - 1) \o From(content, pos)

EditorBackspace ==
    /\ pc = "editor"
    /\ ops < MaxOps
    /\ IF cursor_pos > 0
       THEN IF HasLine
            THEN /\ EditorStep("BACKSPACE")
                 /\ lines' = list_set(lines, current_line,
                        editor_rubout(EditorContent, cursor_pos) \o <<NL>>)
                 /\ cursor_pos' = cursor_pos - 1
                 /\ modified' = TRUE
                 /\ UNCHANGED current_line
            ELSE EditorRaise("BACKSPACE")
       ELSE IF current_line > 0
            THEN /\ EditorStep("BACKSPACE")
                 /\ lines' = editor_join(lines, current_line)
                 /\ current_line' = current_line - 1
                 /\ cursor_pos' = Len(rstrip(lines[current_line]))
                 /\ modified' = TRUE
            ELSE /\ EditorStep("BACKSPACE")
                 /\ UNCHANGED <<lines, current_line, cursor_pos, modified>>
    /\ ops' = IF pc' = "raised" THEN ops ELSE ops + 1
    /\ UNCHANGED insert_mode

\* CTRL_S that resets the modified flag whatever save_file returned
EditorCtrlS_clearing ==
    /\ pc = "editor"
    /\ ops < MaxOps
    /\ ops' = ops + 1
    /\ \E fail \in Failures :
       \E k \in WriteCalls(lines, fail) :
          LET r == save_file(disk, backup, lines, fail, k) IN
          /\ disk' = r.disk
          /\ backup' = r.backup
          /\ save_result' = r.result
          /\ modified' = FALSE
    /\ key' = "CTRL_S"
    /\ confirm' = "none"
    /\ UNCHANGED <<pc, lines, current_line, insert_mode, cursor_pos, viewerVars,
                   saving>>

\* CTRL_S: save_file, then 'SAVE' is returned and the loop continues
EditorCtrlS ==
    /\ pc = "editor"
    /\ ops < MaxOps
    /\ ops' = ops + 1
    /\ \E fail \in Failures :
       \E k \in WriteCalls(lines, fail) :
          LET r == save_file(disk, backup, lines, fail, k) IN
          /\ disk' = r.disk
          /\ backup' = r.backup
          /\ save_result' = r.result
          /\ modified' = IF r.result = "ok" THEN FALSE ELSE modified
    /\ key' = "CTRL_S"
    /\ confirm' = "none"
    /\ UNCHANGED <<pc, lines, current_line, insert_mode, cursor_pos, viewerVars,
                   saving>>

\* what the confirmation prompt returns, stripped and lower-cased
Answers == {"y", "n"}

\* ESCAPE: quit, after a confirmation if the buffer is modified
EditorEscape ==
    /\ pc = "editor"
    /\ key' = "ESCAPE"
    /\ save_result' = "none"
    /\ IF modified
       THEN \E answer \in Answers :
               /\ confirm' = answer
               /\ pc' = IF answer = "y" THEN "quit" ELSE "editor"
       ELSE /\ confirm' = "none"
            /\ pc' = "quit"
    /\ UNCHANGED <<lines, current_line, insert_mode, editorVars, viewerVars,
                   fsVars, ops>>

\* a printable character other than 'F', which the dispatch catches earlier
EditorChar ==
    \E c \in Chars \ {"F"} :
       /\ pc = "editor"
       /\ ops < MaxOps
       /\ IF HasLine
          THEN /\ EditorStep(c)
               /\ lines' = list_set(lines, current_line,
                      editor_typed(EditorContent, cursor_pos, c, insert_mode)
                      \o <<NL>>)
               /\ cursor_pos' = cursor_pos + 1
               /\ modified' = TRUE
               /\ ops' = ops + 1
               /\ UNCHANGED <<current_line, insert_mode>>
          ELSE EditorRaise(c)

\* tokens of the alphabet that no branch of handle_input matches
EditorUnhandled == {"DELETE", "CTRL_D"}

EditorOther ==
    \E k \in EditorUnhandled :
       /\ EditorStep(k)
       /\ UNCHANGED <<lines, current_line, insert_mode, editorVars, ops>>

EditorNext ==
    \/ EditorUp
    \/ EditorDown
    \/ EditorLeft
    \/ EditorRight
    \/ EditorHome
    \/ EditorEnd
    \/ EditorInsert
    \/ EditorKeyF
    \/ EditorEnter
    \/ EditorBackspace
    \/ EditorCtrlS
    \/ EditorEscape
    \/ EditorChar
    \/ EditorOther

(***************************************************************************)
(* The viewer: FileManager.nano_like_viewer.  While editing_line is false  *)
(* the loop dispatches the key itself (Viewing mode); while it is true the *)
(* key goes to handle_editing_input (InlineEdit mode).  The buffer `lines` *)
(* is never assigned after it was read.                                    *)
(***************************************************************************)
\* the Overlay: modified_lines[i] = v and del modified_lines[i]
overlay_set(ov, i, v) == [j \in (DOMAIN ov) \cup {i} |-> IF j = i THEN v ELSE ov[j]]
overlay_del(ov, i) == [j \in (DOMAIN ov) \ {i} |-> ov[j]]

\* the content read from the buffer line even when the overlay has an entry
viewer_content_stale(ls, ov, i) == rstrip(ls[i + 1])

\* the line the viewer edits at index i: the overlay entry if there is one,
\* else the buffer line, terminator stripped
viewer_content(ls, ov, i) == rstrip(IF i \in DOMAIN ov THEN ov[i] ELSE ls[i + 1])

\* the text the display loop prints for index i (before truncation to the
\* terminal width): overlay entry, else buffer line, else an empty new line
line_content(ls, ov, i) ==
    IF i \in DOMAIN ov THEN rstrip(ov[i])
    ELSE IF i < Len(ls) THEN rstrip(ls[i + 1])
    ELSE <<>>

\* a window that always starts at the first line
editor_window_top(ls, cur, rows) ==
    LET available_lines == rows - 6
    IN  [start |-> 0, end |-> Min(Len(ls), available_lines)]

\* the window of line indices [start, end) the editor's display_content shows
\* on a terminal of `rows` rows
editor_window(ls, cur, rows) ==
    LET available_lines == rows - 6
        start_line == Max(0, cur - (available_lines \div 2))
    IN  [start |-> start_line,
         end |-> Min(Len(ls), start_line + available_lines)]

\* the window the viewer's display loop shows: the number of lines to show
\* is first cut down to the line count, and the window is centred with it
viewer_window(ls, ov, cur, rows) ==
    LET total_lines == Len(ls) + Cardinality({i \in DOMAIN ov : i >= Len(ls)})
        available_lines == rows - 6
        lines_to_show == Min(available_lines, total_lines)
        start_line == Max(0, cur - (lines_to_show \div 2))
    IN  [start |-> start_line,
         end |-> Min(total_lines, start_line + lines_to_show)]

\* terminal heights returned by get_terminal_size
TerminalRows == {10, 24}

lines_per_page(rows) == Max(5, rows - 8)

\* a key dispatched in Viewing mode
ViewKey(k) ==
    /\ pc = "viewer"
    /\ ~editing_line
    /\ key' = k
    /\ save_result' = "none"
    /\ UNCHANGED <<lines, editorVars, fsVars>>

\* a key of Viewing mode whose branch asks for no confirmation
ViewStep(k) ==
    /\ ViewKey(k)
    /\ confirm' = "none"

ViewUp ==
    /\ ViewStep("UP")
    /\ current_line' = Max(0, current_line - 1)
    /\ UNCHANGED <<pc, insert_mode, viewerVars, ops>>

ViewDown ==
    /\ ViewStep("DOWN")
    /\ current_line' = Min(Len(lines) - 1, current_line + 1)
    /\ UNCHANGED <<pc, insert_mode, viewerVars, ops>>

ViewPageUp ==
    \E k \in {"PAGE_UP", "LEFT"}, rows \in TerminalRows :
       /\ ViewStep(k)
       /\ current_line' = Max(0, current_line - lines_per_page(rows))
       /\ UNCHANGED <<pc, insert_mode, viewerVars, ops>>

\* PAGE_DOWN without the clamp to the last line
ViewPageDown_unclamped ==
    \E k \in {"PAGE_DOWN", "RIGHT"}, rows \in TerminalRows :
       /\ ViewStep(k)
       /\ current_line' = current_line + lines_per_page(rows)
       /\ UNCHANGED <<pc, insert_mode, viewerVars, ops>>

ViewPageDown ==
    \E k \in {"PAGE_DOWN", "RIGHT"}, rows \in TerminalRows :
       /\ ViewStep(k)
       /\ current_line' = Min(Len(lines) - 1, current_line + lines_per_page(rows))
       /\ UNCHANGED <<pc, insert_mode, viewerVars, ops>>

ViewHome ==
    /\ ViewStep("HOME")
    /\ current_line' = 0
    /\ UNCHANGED <<pc, insert_mode, viewerVars, ops>>

ViewEnd ==
    /\ ViewStep("END")
    /\ current_line' = Len(lines) - 1
    /\ UNCHANGED <<pc, insert_mode, viewerVars, ops>>

\* Q or ESCAPE that leaves the viewer without asking
ViewQuit_unconfirmed ==
    \E k \in {"Q", "ESCAPE"} :
       /\ ViewKey(k)
       /\ confirm' = "none"
       /\ pc' = "quit"
       /\ UNCHANGED <<current_line, insert_mode, viewerVars, ops>>

\* Q or ESCAPE: leave the viewer, after a confirmation if changes are unsaved
ViewQuit ==
    \E k \in {"Q", "ESCAPE"} :
       /\ ViewKey(k)
       /\ IF file_modified
          THEN \E answer \in Answers :
                  /\ confirm' = answer
                  /\ pc' = IF answer = "y" THEN "quit" ELSE "viewer"
          ELSE /\ confirm' = "none"
               /\ pc' = "quit"
       /\ UNCHANGED <<current_line, insert_mode, viewerVars, ops>>

\* what the LineReplace prompt of edit_line may return
LineInputs == { <<>>, <<"a", SP>> }

\* edit_line that stores the entered text even when it equals the line
edit_line_always(ls, ov, i, typed) ==
    IF 0 <= i /\ i < Len(ls)
    THEN overlay_set(ov, i, strip(typed) \o <<NL>>)
    ELSE ov

\* edit_line: the overlay after the prompt returned `typed` for line i
edit_line(ls, ov, i, typed) ==
    IF 0 <= i /\ i < Len(ls)
    THEN LET current_content == viewer_content(ls, ov, i)
             new_content == strip(typed)
         IN  IF new_content # current_content
             THEN overlay_set(ov, i, new_content \o <<NL>>)
             ELSE ov
    ELSE ov

\* ENTER: in edit mode the current line is replaced from a prompt; otherwise
\* the line's details are shown
ViewEnter ==
    /\ ViewStep("ENTER")
    /\ IF edit_mode
       THEN /\ ops < MaxOps
            /\ ops' = ops + 1
            /\ \E typed \in LineInputs :
                  modified_lines' = edit_line(lines, modified_lines, current_line, typed)
            /\ file_modified' = TRUE
       ELSE UNCHANGED <<modified_lines, file_modified, ops>>
    /\ UNCHANGED <<pc, current_line, insert_mode, cursor_position, editing_line,
                   current_edit_line, edit_mode, searchVars>>

\* E: switch edit mode on; in edit mode, start InlineEdit on the current line
ViewE ==
    /\ ViewStep("E")
    /\ IF edit_mode
       THEN /\ editing_line' = TRUE
            /\ current_edit_line' = current_line
            /\ cursor_position' = 0
            /\ insert_mode' = TRUE
            /\ UNCHANGED edit_mode
       ELSE /\ edit_mode' = TRUE
            /\ UNCHANGED <<editing_line, current_edit_line, cursor_position,
                           insert_mode>>
    /\ UNCHANGED <<pc, current_line, modified_lines, file_modified, searchVars,
                   ops>>

\* S: in edit mode with unsaved changes, save_file_changes runs; whatever it
\* did, the flag is reset and the overlay cleared
ViewSave ==
    /\ pc = "viewer"
    /\ ~editing_line
    /\ key' = "S"
    /\ confirm' = "none"
    /\ IF edit_mode /\ file_modified
       THEN /\ ops < MaxOps
            /\ ops' = ops + 1
            /\ \E fail \in Failures :
               \E k \in WriteCalls(lines, fail) :
                  LET r == save_file_changes(disk, backup, lines, modified_lines,
                                             fail, k) IN
                  /\ disk' = r.disk
                  /\ backup' = r.backup
                  /\ save_result' = r.result
            /\ file_modified' = FALSE
            /\ modified_lines' = <<>>
       ELSE /\ save_result' = "none"
            /\ UNCHANGED <<fsVars, file_modified, modified_lines, ops>>
    /\ UNCHANGED <<pc, lines, current_line, insert_mode, editorVars,
                   cursor_position, editing_line, current_edit_line, edit_mode,
                   searchVars, saving>>

\* D that drops only the entry of the current line
ViewDiscard_current_only ==
    /\ ViewKey("D")
    /\ IF edit_mode /\ file_modified
       THEN \E answer \in Answers :
               /\ confirm' = answer
               /\ IF answer = "y"
                  THEN /\ modified_lines' =
                             IF current_line \in DOMAIN modified_lines
                             THEN overlay_del(modified_lines, current_line)
                             ELSE modified_lines
                       /\ file_modified' = FALSE
                       /\ edit_mode' = FALSE
                  ELSE UNCHANGED <<modified_lines, file_modified, edit_mode>>
       ELSE /\ confirm' = "none"
            /\ UNCHANGED <<modified_lines, file_modified, edit_mode>>
    /\ UNCHANGED <<pc, current_line, insert_mode, cursor_position, editing_line,
                   current_edit_line, searchVars, ops>>

\* D: in edit mode with unsaved changes, discard them after a confirmation
ViewDiscard ==
    /\ ViewKey("D")
    /\ IF edit_mode /\ file_modified
       THEN \E answer \in Answers :
               /\ confirm' = answer
               /\ IF answer = "y"
                  THEN /\ modified_lines' = <<>>
                       /\ file_modified' = FALSE
                       /\ edit_mode' = FALSE
                  ELSE UNCHANGED <<modified_lines, file_modified, edit_mode>>
       ELSE /\ confirm' = "none"
            /\ UNCHANGED <<modified_lines, file_modified, edit_mode>>
    /\ UNCHANGED <<pc, current_line, insert_mode, cursor_position, editing_line,
                   current_edit_line, searchVars, ops>>

\* R: the terminal size is queried again and the current line re-validated
ViewResize ==
    /\ ViewStep("R")
    /\ current_line' = IF current_line >= Len(lines) THEN Len(lines) - 1
                       ELSE current_line
    /\ UNCHANGED <<pc, insert_mode, viewerVars, ops>>

(***************************************************************************)
(* Search: FileManager.search_in_file and the keys '/', N and P.           *)
(***************************************************************************)
\* str.lower() on the characters of the model
lower_char(c) == CASE c = "A" -> "a" [] c = "F" -> "f" [] OTHER -> c
lower(s) == [i \in 1..Len(s) |-> lower_char(s[i])]

\* term in line
contains(term, line) ==
    \E i \in 0..(Len(line) - Len(term)) : SubSeq(line, i + 1, i + Len(term)) = term

\* the loop over enumerate(lines) from index i on: the indices of the buffer
\* lines that contain the term, case ignored
RECURSIVE search_scan(_, _, _)
search_scan(ls, term, i) ==
    IF i >= Len(ls) THEN <<>>
    ELSE (IF contains(lower(term), lower(ls[i + 1])) THEN <<i>> ELSE <<>>)
         \o search_scan(ls, term, i + 1)

\* search_results.index(x) for x in search_results
list_index(results, x) == (CHOOSE p \in 1..Len(results) : results[p] = x) - 1

\* the loop looking for the first result after the anchor, from position p on
RECURSIVE first_after(_, _, _)
first_after(results, anchor, p) ==
    IF p >= Len(results) THEN 0
    ELSE IF results[p + 1] > anchor THEN p
    ELSE first_after(results, anchor, p + 1)

\* the starting position that ignores the anchor
search_start_first(results, anchor) == 0

\* the starting position in a non-empty result list
search_start(results, anchor) ==
    IF \E p \in 1..Len(results) : results[p] = anchor
    THEN list_index(results, anchor)
    ELSE first_after(results, anchor, 0)

\* search_in_file without the early return on an empty term
search_in_file_unchecked(ls, anchor, raw) ==
    LET term == strip(raw)
        results == search_scan(ls, term, 0)
    IN  [results |-> results,
         index |-> IF results # <<>> THEN search_start(results, anchor) ELSE 0,
         term |-> term]

\* search_in_file, for the text `raw` typed at its prompt
search_in_file(ls, anchor, raw) ==
    LET term == strip(raw) IN
    IF term = <<>>
    THEN [results |-> <<>>, index |-> 0, term |-> <<>>]
    ELSE LET results == search_scan(ls, term, 0) IN
         [results |-> results,
          index |-> IF results # <<>> THEN search_start(results, anchor) ELSE 0,
          term |-> term]

\* what the search prompt may return
SearchInputs == { <<>>, <<SP>>, <<"f">>, <<"a">>, <<"A", SP>> }

\* '/': search, then go to the match the search points at
ViewSearch ==
    /\ ViewStep("/")
    /\ \E raw \in SearchInputs :
          LET r == search_in_file(lines, current_line, raw) IN
          /\ search_results' = r.results
          /\ search_index' = r.index
          /\ search_term' = r.term
          /\ current_line' = IF r.results # <<>> THEN r.results[r.index + 1]
                             ELSE current_line
    /\ UNCHANGED <<pc, insert_mode, cursor_position, modified_lines,
                   file_modified, editing_line, current_edit_line, edit_mode, ops>>

\* N that stops at the last match instead of wrapping
ViewSearchNext_nowrap ==
    /\ ViewStep("N")
    /\ IF search_results # <<>> /\ search_index < Len(search_results) - 1
       THEN /\ search_index' = search_index + 1
            /\ current_line' = search_results[search_index' + 1]
       ELSE UNCHANGED <<search_index, current_line>>
    /\ UNCHANGED <<pc, insert_mode, cursor_position, modified_lines,
                   file_modified, editing_line, current_edit_line, edit_mode,
                   search_term, search_results, ops>>

\* N: the next match, wrapping to the first
ViewSearchNext ==
    /\ ViewStep("N")
    /\ IF search_results # <<>>
       THEN /\ search_index' = IF search_index < Len(search_results) - 1
                               THEN search_index + 1 ELSE 0
            /\ current_line' = search_results[search_index' + 1]
       ELSE UNCHANGED <<search_index, current_line>>
    /\ UNCHANGED <<pc, insert_mode, cursor_position, modified_lines,
                   file_modified, editing_line, current_edit_line, edit_mode,
                   search_term, search_results, ops>>

\* P: the previous match, wrapping to the last
ViewSearchPrev ==
    /\ ViewStep("P")
    /\ IF search_results # <<>>
       THEN /\ search_index' = IF search_index > 0
                               THEN search_index - 1
                               ELSE Len(search_results) - 1
            /\ current_line' = search_results[search_index' + 1]
       ELSE UNCHANGED <<search_index, current_line>>
    /\ UNCHANGED <<pc, insert_mode, cursor_position, modified_lines,
                   file_modified, editing_line, current_edit_line, edit_mode,
                   search_term, search_results, ops>>

\* tokens that change nothing of the session in Viewing mode: M toggles the
\* single/multi label of the footer, the others match no branch
ViewUnhandled == {"M", "CTRL_S", "DELETE"}

ViewOther ==
    \E k \in ViewUnhandled :
       /\ ViewStep(k)
       /\ UNCHANGED <<pc, current_line, insert_mode, viewerVars, ops>>

(***************************************************************************)
(* InlineEdit: handle_editing_input followed by the caller's copy-back of  *)
(* self.cursor_position, self.insert_mode and self.editing_line.  The      *)
(* caller never copies self.current_edit_line back, so the edited line     *)
(* index stays the one chosen by E.                                        *)
(***************************************************************************)
CurrentContent == viewer_content(lines, modified_lines, current_edit_line)

EditStep(k) ==
    /\ pc = "viewer"
    /\ editing_line
    /\ key' = k
    /\ confirm' = "none"
    /\ save_result' = "none"
    /\ UNCHANGED <<pc, lines, current_line, current_edit_line, edit_mode,
                   searchVars, editorVars, fsVars>>

\* the session goes on: nothing but cursor, mode flag and overlay may change
EditStays == UNCHANGED <<editing_line, file_modified>>

\* the session ended: the caller leaves InlineEdit and sets file_modified
EditEnds == editing_line' = FALSE /\ file_modified' = TRUE

\* ESCAPE that throws the pending overlay entries away
EditEscape_discarding ==
    /\ EditStep("ESCAPE")
    /\ EditEnds
    /\ modified_lines' = <<>>
    /\ UNCHANGED <<cursor_position, insert_mode, ops>>

EditEscape ==
    /\ EditStep("ESCAPE")
    /\ EditEnds
    /\ UNCHANGED <<cursor_position, insert_mode, modified_lines, ops>>

EditLeft ==
    /\ EditStep("LEFT")
    /\ cursor_position' = Max(0, cursor_position - 1)
    /\ EditStays
    /\ UNCHANGED <<insert_mode, modified_lines, ops>>

\* RIGHT without the clamp to the line length
EditRight_unclamped ==
    /\ EditStep("RIGHT")
    /\ cursor_position' = cursor_position + 1
    /\ EditStays
    /\ UNCHANGED <<insert_mode, modified_lines, ops>>

EditRight ==
    /\ EditStep("RIGHT")
    /\ cursor_position' = Min(Len(CurrentContent), cursor_position + 1)
    /\ EditStays
    /\ UNCHANGED <<insert_mode, modified_lines, ops>>

EditHome ==
    /\ EditStep("HOME")
    /\ cursor_position' = 0
    /\ EditStays
    /\ UNCHANGED <<insert_mode, modified_lines, ops>>

EditEnd ==
    /\ EditStep("END")
    /\ cursor_position' = Len(CurrentContent)
    /\ EditStays
    /\ UNCHANGED <<insert_mode, modified_lines, ops>>

EditUp ==
    /\ EditStep("UP")
    /\ cursor_position' =
          IF current_edit_line > 0
          THEN Min(cursor_position,
                   Len(viewer_content(lines, modified_lines, current_edit_line - 1)))
          ELSE cursor_position
    /\ EditStays
    /\ UNCHANGED <<insert_mode, modified_lines, ops>>

EditDown ==
    /\ EditStep("DOWN")
    /\ cursor_position' =
          IF current_edit_line < Len(lines) - 1
          THEN Min(cursor_position,
                   Len(viewer_content(lines, modified_lines, current_edit_line + 1)))
          ELSE cursor_position
    /\ EditStays
    /\ UNCHANGED <<insert_mode, modified_lines, ops>>

EditInsert ==
    /\ EditStep("INSERT")
    /\ insert_mode' = ~insert_mode
    /\ EditStays
    /\ UNCHANGED <<cursor_position, modified_lines, ops>>

\* the line after Backspace at column pos > 0
viewer_rubout(content, pos) == Upto(content, pos - 1) \o From(content, pos)

EditBackspace ==
    /\ EditStep("BACKSPACE")
    /\ ops < MaxOps
    /\ ops' = ops + 1
    /\ IF cursor_position > 0
       THEN /\ modified_lines' = overlay_set(modified_lines, current_edit_line,
                   viewer_rubout(CurrentContent, cursor_position) \o <<NL>>)
            /\ cursor_position' = cursor_position - 1
       ELSE UNCHANGED <<modified_lines, cursor_position>>
    /\ EditStays
    /\ UNCHANGED insert_mode

\* the line after Delete at column pos < len
viewer_delete(content, pos) == Upto(content, pos) \o From(content, pos + 1)

EditDelete ==
    /\ EditStep("DELETE")
    /\ ops < MaxOps
    /\ ops' = ops + 1
    /\ IF cursor_position < Len(CurrentContent)
       THEN modified_lines' = overlay_set(modified_lines, current_edit_line,
                   viewer_delete(CurrentContent, cursor_position) \o <<NL>>)
       ELSE UNCHANGED modified_lines
    /\ EditStays
    /\ UNCHANGED <<cursor_position, insert_mode>>

\* CTRL_S that forgets to end the inline session
EditCtrlS_staying ==
    /\ EditStep("CTRL_S")
    /\ EditStays
    /\ UNCHANGED <<cursor_position, insert_mode, modified_lines, ops>>

\* CTRL_S only ends the inline session; the caller runs no save
EditCtrlS ==
    /\ EditStep("CTRL_S")
    /\ EditEnds
    /\ UNCHANGED <<cursor_position, insert_mode, modified_lines, ops>>

\* CTRL_D that clears the whole overlay
EditCtrlD_clear_all ==
    /\ EditStep("CTRL_D")
    /\ modified_lines' = <<>>
    /\ EditEnds
    /\ UNCHANGED <<cursor_position, insert_mode, ops>>

EditCtrlD ==
    /\ EditStep("CTRL_D")
    /\ modified_lines' = IF current_edit_line \in DOMAIN modified_lines
                         THEN overlay_del(modified_lines, current_edit_line)
                         ELSE modified_lines
    /\ EditEnds
    /\ UNCHANGED <<cursor_position, insert_mode, ops>>

\* the overlay after Enter at column pos of line i: the first part replaces
\* the line; the second part is kept in self.new_line_content, which nothing
\* reads
viewer_split(ls, ov, i, pos) ==
    LET content == viewer_content(ls, ov, i) IN
    IF pos < Len(content)
    THEN overlay_set(ov, i, Upto(content, pos) \o <<NL>>)
    ELSE ov

EditEnter ==
    /\ EditStep("ENTER")
    /\ ops < MaxOps
    /\ ops' = ops + 1
    /\ modified_lines' = viewer_split(lines, modified_lines, current_edit_line,
                                      cursor_position)
    /\ cursor_position' = 0
    /\ EditStays
    /\ UNCHANGED insert_mode

\* the line after typing ch at column pos (insert or overwrite)
viewer_typed(content, pos, ch, ins) ==
    IF ins
    THEN Upto(content, pos) \o <<ch>> \o From(content, pos)
    ELSE IF pos < Len(content)
         THEN Upto(content, pos) \o <<ch>> \o From(content, pos + 1)
         ELSE content \o <<ch>>

EditChar ==
    \E c \in Chars :
       /\ EditStep(c)
       /\ ops < MaxOps
       /\ ops' = ops + 1
       /\ modified_lines' = overlay_set(modified_lines, current_edit_line,
              viewer_typed(CurrentContent, cursor_position, c, insert_mode)
              \o <<NL>>)
       /\ cursor_position' = cursor_position + 1
       /\ EditStays
       /\ UNCHANGED insert_mode

\* multi-character tokens that match no branch of handle_editing_input
EditUnhandled == {"PAGE_UP"}

EditOther ==
    \E k \in EditUnhandled :
       /\ EditStep(k)
       /\ EditStays
       /\ UNCHANGED <<cursor_position, insert_mode, modified_lines, ops>>

ViewerNext ==
    \/ ViewUp
    \/ ViewDown
    \/ ViewPageUp
    \/ ViewPageDown
    \/ ViewHome
    \/ ViewEnd
    \/ ViewQuit
    \/ ViewEnter
    \/ ViewE
    \/ ViewSave
    \/ ViewDiscard
    \/ ViewResize
    \/ ViewOther
    \/ EditEscape
    \/ EditLeft
    \/ EditRight
    \/ EditHome
    \/ EditEnd
    \/ EditUp
    \/ EditDown
    \/ EditInsert
    \/ EditBackspace
    \/ EditDelete
    \/ EditCtrlS
    \/ EditCtrlD
    \/ EditEnter
    \/ EditChar
    \/ EditOther

\* editing sessions of the editor and of the viewer
Next == EditorNext \/ ViewerNext

Spec == Init /\ [][Next]_vars

(***************************************************************************)
(* Viewer sessions with search, on files long enough for a match to lie    *)
(* before and after the current line: navigation, the search keys, and the *)
(* inline edits that make the overlay differ from the buffer.              *)
(***************************************************************************)
SearchFiles ==
    { File(<<"a", NL, "b", NL, "a", NL, "c", NL>>),
      File(<<"b", NL, "A">>) }

SearchInit ==
    \E f \in SearchFiles :
        /\ disk = f
        /\ backup = NoFile
        /\ saving = NoSave
        /\ key = ""
        /\ confirm = "none"
        /\ save_result = "none"
        /\ ops = 0
        /\ ViewerInit(f)

SearchNext ==
    \/ ViewUp
    \/ ViewDown
    \/ ViewHome
    \/ ViewEnd
    \/ ViewSearch
    \/ ViewSearchNext
    \/ ViewSearchPrev
    \/ ViewE
    \/ EditChar
    \/ EditDelete
    \/ EditEscape

SearchSpec == SearchInit /\ [][SearchNext]_vars

(***************************************************************************)
(* Viewer sessions that save more than once.  Such a session starts here   *)
(* in the state its first save left: edit mode was switched on with E,     *)
(* line i was edited inline by typing c at column 0, the inline edit was   *)
(* finished with ESCAPE and S saved it without a failure.                  *)
(***************************************************************************)
ResaveFiles ==
    { File(<<"a", "F", NL, "a">>),
      File(<<"a", NL, "b", NL, "c", NL>>) }

ResaveInit ==
    \E f \in ResaveFiles, c \in Chars :
    \E i \in 0..(Len(readlines(f.data)) - 1) :
        LET ls == readlines(f.data)
            ov == overlay_set(<<>>, i,
                      viewer_typed(viewer_content(ls, <<>>, i), 0, c, TRUE)
                      \o <<NL>>)
            r == save_file_changes(f, NoFile, ls, ov, "none", 0)
        IN  /\ pc = "viewer"
            /\ key = "S"
            /\ confirm = "none"
            /\ save_result = r.result
            /\ disk = r.disk
            /\ backup = r.backup
            /\ saving = NoSave
            /\ lines = ls
            /\ current_line = i
            /\ current_edit_line = i
            /\ cursor_position = 1
            /\ insert_mode = TRUE
            /\ editing_line = FALSE
            /\ edit_mode = TRUE
            /\ file_modified = FALSE
            /\ modified_lines = <<>>
            /\ cursor_pos = 0
            /\ modified = FALSE
            /\ search_term = <<>>
            /\ search_results = <<>>
            /\ search_index = 0
            /\ ops = 0

ResaveNext ==
    \/ ViewUp
    \/ ViewDown
    \/ ViewE
    \/ ViewSave
    \/ EditChar
    \/ EditBackspace
    \/ EditEscape

ResaveSpec == ResaveInit /\ [][ResaveNext]_vars

(***************************************************************************)
(* Navigation sessions of the editor and of the viewer on files of up to   *)
(* MaxLines lines, so that the file may be shorter or longer than the      *)
(* rows of the terminal and than a page.                                   *)
(***************************************************************************)
\* the text of n lines "a"
RECURSIVE LinesOfA(_)
LinesOfA(n) == IF n = 0 THEN <<>> ELSE <<"a", NL>> \o LinesOfA(n - 1)

NavFiles == { File(LinesOfA(n)) : n \in 1..MaxLines }

\* terminal heights that leave 1 to MaxLines + 2 rows for the text
NavRows == 7..(MaxLines + 8)

NavInit ==
    \E f \in NavFiles :
        /\ disk = f
        /\ backup = NoFile
        /\ saving = NoSave
        /\ key = ""
        /\ confirm = "none"
        /\ save_result = "none"
        /\ ops = 0
        /\ (EditorInit(f) \/ ViewerInit(f))

NavNext ==
    \/ EditorUp
    \/ EditorDown
    \/ EditorHome
    \/ EditorEnd
    \/ ViewUp
    \/ ViewDown
    \/ ViewPageUp
    \/ ViewPageDown
    \/ ViewHome
    \/ ViewEnd
    \/ ViewResize
    \/ ViewSearch
    \/ ViewSearchNext
    \/ ViewSearchPrev

NavSpec == NavInit /\ [][NavNext]_vars

(***************************************************************************)
(* SimpleEditor.save_file step by step: each file operation is one action, *)
(* and each may raise; the except clause then prints the error and returns *)
(* False.  pc names the operation about to run.                            *)
(***************************************************************************)
\* a failing step that resets the modified flag all the same
SaveReturnsFalse_clearing(result) ==
    /\ pc' = "editor"
    /\ save_result' = result
    /\ modified' = FALSE
    /\ UNCHANGED saving

\* save_file returns False from the step at hand
SaveReturnsFalse(result) ==
    /\ pc' = "editor"
    /\ save_result' = result
    /\ UNCHANGED <<modified, saving>>

\* every step leaves the session state and the last key alone
SaveStep(step) ==
    /\ pc = step
    /\ UNCHANGED <<key, confirm, lines, current_line, insert_mode, cursor_pos,
                   viewerVars, ops>>

\* CTRL_S that enters a save_file without the backup block
SaveStart_no_backup ==
    /\ pc = "editor"
    /\ ops < MaxOps
    /\ ops' = ops + 1
    /\ key' = "CTRL_S"
    /\ confirm' = "none"
    /\ save_result' = "none"
    /\ saving' = [pre |-> disk, buf |-> <<>>, n |-> 0]
    /\ pc' = "save_file_open"
    /\ UNCHANGED <<lines, current_line, insert_mode, editorVars, viewerVars,
                   disk, backup>>

\* CTRL_S: handle_input calls save_file; the backup block runs only if the
\* file exists
SaveStart ==
    /\ pc = "editor"
    /\ ops < MaxOps
    /\ ops' = ops + 1
    /\ key' = "CTRL_S"
    /\ confirm' = "none"
    /\ save_result' = "none"
    /\ saving' = [pre |-> disk, buf |-> <<>>, n |-> 0]
    /\ pc' = IF disk.exists THEN "save_backup_open" ELSE "save_file_open"
    /\ UNCHANGED <<lines, current_line, insert_mode, editorVars, viewerVars,
                   disk, backup>>

\* open(backup_path, 'w'): the backup is created or truncated
SaveBackupOpen ==
    /\ SaveStep("save_backup_open")
    /\ \/ /\ backup' = File(<<>>)
          /\ pc' = "save_read_original"
          /\ UNCHANGED <<save_result, modified, saving>>
       \/ /\ backup' = backup
          /\ SaveReturnsFalse("backup_failed")
    /\ UNCHANGED disk

\* open(self.file_path, 'r') and original.read()
SaveReadOriginal ==
    /\ SaveStep("save_read_original")
    /\ \/ /\ saving' = [saving EXCEPT !.buf = disk.data]
          /\ pc' = "save_backup_write"
          /\ UNCHANGED <<save_result, modified>>
       \/ SaveReturnsFalse("backup_failed")
    /\ UNCHANGED <<disk, backup>>

\* f.write(...) and the close of the backup: all of the text read, or on a
\* failure some shorter prefix of it
SaveBackupWrite ==
    /\ SaveStep("save_backup_write")
    /\ \/ /\ backup' = File(saving.buf)
          /\ pc' = "save_file_open"
          /\ UNCHANGED <<save_result, modified, saving>>
       \/ /\ \E k \in 0..Max(0, Len(saving.buf) - 1) :
                backup' = File(Upto(saving.buf, k))
          /\ SaveReturnsFalse("backup_failed")
    /\ UNCHANGED disk

\* open(self.file_path, 'w'): the file is created or truncated
SaveFileOpen ==
    /\ SaveStep("save_file_open")
    /\ \/ /\ disk' = File(<<>>)
          /\ pc' = "save_file_write"
          /\ UNCHANGED <<save_result, modified, saving>>
       \/ /\ disk' = disk
          /\ SaveReturnsFalse("write_failed")
    /\ UNCHANGED backup

\* for line in self.lines: f.write(line); after the last line the flag is
\* reset and True returned
SaveFileWrite ==
    /\ SaveStep("save_file_write")
    /\ IF saving.n < Len(lines)
       THEN \/ /\ disk' = File(disk.data \o lines[saving.n + 1])
               /\ saving' = [saving EXCEPT !.n = saving.n + 1]
               /\ UNCHANGED <<pc, save_result, modified>>
            \/ /\ disk' = disk
               /\ SaveReturnsFalse("write_failed")
       ELSE /\ modified' = FALSE
            /\ pc' = "editor"
            /\ save_result' = "ok"
            /\ UNCHANGED <<disk, saving>>
    /\ UNCHANGED backup

\* editor sessions whose saves are traced step by step
SaveStepsInit ==
    \E f \in InitialFiles :
        /\ disk = f
        /\ backup = NoFile
        /\ saving = NoSave
        /\ key = ""
        /\ confirm = "none"
        /\ save_result = "none"
        /\ ops = 0
        /\ EditorInit(f)

SaveStepsNext ==
    \/ EditorUp
    \/ EditorDown
    \/ EditorLeft
    \/ EditorRight
    \/ EditorHome
    \/ EditorEnd
    \/ EditorInsert
    \/ EditorKeyF
    \/ EditorEnter
    \/ EditorBackspace
    \/ EditorEscape
    \/ EditorChar
    \/ EditorOther
    \/ SaveStart
    \/ SaveBackupOpen
    \/ SaveReadOriginal
    \/ SaveBackupWrite
    \/ SaveFileOpen
    \/ SaveFileWrite

SaveStepsSpec == SaveStepsInit /\ [][SaveStepsNext]_vars

(***************************************************************************)
(* Vocabulary of the properties.                                           *)
(***************************************************************************)
\* character editing is active: the editor while it runs, the viewer while
\* editing_line is true
EditingActive == pc = "editor" \/ (pc = "viewer" /\ editing_line)

\* index and column of the edit cursor
LineIdx == IF pc = "editor" THEN current_line ELSE current_edit_line
Col == IF pc = "editor" THEN cursor_pos ELSE cursor_position

\* the effective content of every line, terminators excluded
EffLines ==
    IF pc = "editor"
    THEN [i \in 1..Len(lines) |-> rstrip(lines[i])]
    ELSE [i \in 1..Len(lines) |-> viewer_content(lines, modified_lines, i - 1)]

\* the edit cursor is on a line of the buffer, within that line
ValidCursor ==
    /\ EditingActive
    /\ 0 <= LineIdx /\ LineIdx < Len(lines)
    /\ 0 <= Col /\ Col <= Len(EffLines[LineIdx + 1])

SaveFailed == save_result \in {"backup_failed", "write_failed"}

MoveTokens == {"LEFT", "RIGHT", "UP", "DOWN", "HOME", "END"}

(***************************************************************************)
(* Properties.                                                             *)
(***************************************************************************)

\* C1: backup-before-write, in both save paths: when the file exists and the
\* backup fails, the file is left exactly as it was; and whenever a save
\* changes an existing file, the backup was completely written first.
C1_BackupBeforeWrite ==
    [][ /\ (disk.exists /\ save_result' = "backup_failed") => disk' = disk
        /\ (disk.exists /\ disk' # disk) =>
              /\ save_result' \in {"write_failed", "ok"}
              /\ backup' = File(IF pc = "editor" THEN disk.data ELSE written(lines))
      ]_vars

\* a save of edited content whose backup failed after the backup was opened
C1_Witness ==
    /\ pc = "editor"
    /\ key = "CTRL_S"
    /\ save_result = "backup_failed"
    /\ disk.exists
    /\ backup = File(<<>>)
    /\ modified
    /\ written(lines) # disk.data

\* C2: a save from Viewing mode (key S) that fails leaves the viewer in
\* Viewing mode with the overlay intact and the unsaved-changes flag set.
C2_FailedSaveKeepsOverlay ==
    [][ (pc = "viewer" /\ key' = "S" /\ SaveFailed') =>
           /\ pc' = "viewer"
           /\ ~editing_line'
           /\ modified_lines' = modified_lines
           /\ file_modified'
      ]_vars

\* C3: after a successful save in the viewer the overlay is empty and every
\* line of the buffer equals the line written to disk.
C3_SaveFoldsOverlay ==
    (pc = "viewer" /\ key = "S" /\ save_result = "ok") =>
        /\ modified_lines = <<>>
        /\ lines = readlines(disk.data)

\* C4: ExplicitSave (CTRL_S) in InlineEdit switches to Viewing and saves at
\* once: after the token the file holds the pending overlay edits.
C4_ExplicitSaveSaves ==
    [][ (pc = "viewer" /\ editing_line /\ key' = "CTRL_S") =>
           /\ ~editing_line'
           /\ disk' = File(written(merged(lines, modified_lines)))
      ]_vars

\* C5: the Line Buffer is never empty in any state of an editing session.
C5_BufferNeverEmpty ==
    pc \in {"editor", "viewer"} => Len(lines) >= 1

\* C6: while character editing is active the cursor column is within
\* [0, length of the effective content of the current edit line].
C6_ColumnInLine ==
    /\ pc = "editor" =>
          /\ 0 <= cursor_pos
          /\ IF HasLine THEN cursor_pos <= Len(EditorContent) ELSE cursor_pos = 0
    /\ (pc = "viewer" /\ editing_line) =>
          /\ 0 <= cursor_position
          /\ cursor_position <= Len(CurrentContent)

\* the inline cursor sits at the end of a line an edit has just shortened
C6_Witness ==
    /\ pc = "viewer"
    /\ editing_line
    /\ key = "BACKSPACE"
    /\ current_edit_line \in DOMAIN modified_lines
    /\ cursor_position = Len(CurrentContent)
    /\ cursor_position > 0

\* C7: a Move/Home/End token applied to a valid editing state leaves the
\* column within the effective line and the line index within the buffer;
\* Home sets the column to 0 and End to the length of the effective line.
C7_Clamping ==
    [][ (ValidCursor /\ key' \in MoveTokens) =>
           /\ ValidCursor'
           /\ key' = "HOME" => Col' = 0
           /\ key' = "END" => Col' = Len(EffLines'[LineIdx' + 1])
      ]_vars

\* a vertical move in the editor has clamped the column to a shorter line
C7_Witness ==
    /\ pc = "editor"
    /\ key = "DOWN"
    /\ current_line = 1
    /\ cursor_pos = Len(EditorContent)
    /\ cursor_pos < Len(rstrip(lines[1]))

\* the line a PrintableChar token must produce
Typed(L, k, c, ins) ==
    IF ins THEN SubSeq(L, 1, k) \o <<c>> \o SubSeq(L, k + 1, Len(L))
    ELSE IF k < Len(L) THEN SubSeq(L, 1, k) \o <<c>> \o SubSeq(L, k + 2, Len(L))
    ELSE L \o <<c>>

\* C8: PrintableChar(c) at column k of a line L yields L[:k]+c+L[k:] in insert
\* mode, L[:k]+c+L[k+1:] (or L+c at the end) in overwrite mode; the column
\* becomes k+1, the line count and every other line stay as they were.
C8_PrintableChar ==
    [][ (ValidCursor /\ key' \in Chars) =>
           /\ EditingActive'
           /\ LineIdx' = LineIdx
           /\ Col' = Col + 1
           /\ EffLines' = [EffLines EXCEPT ![LineIdx + 1] =
                              Typed(EffLines[LineIdx + 1], Col, key', insert_mode)]
      ]_vars

\* C9: Enter followed at once by Backspace restores the line: the Backspace
\* that follows an Enter joins the two halves Enter left on lines i and i+1
\* back into line i, with the cursor at the join and all other lines kept.
C9_SplitJoinInverse ==
    [][ (EditingActive /\ key = "ENTER" /\ key' = "BACKSPACE") =>
           /\ EditingActive'
           /\ LineIdx >= 1
           /\ LineIdx' = LineIdx - 1
           /\ Col' = Len(EffLines[LineIdx])
           /\ EffLines' = SubSeq(EffLines, 1, LineIdx - 1)
                          \o <<EffLines[LineIdx] \o EffLines[LineIdx + 1]>>
                          \o SubSeq(EffLines, LineIdx + 2, Len(EffLines))
      ]_vars

\* C10: Enter at column k of line i splits it: line i becomes L[:k], line i+1
\* becomes L[k:], later lines move one index up, the cursor goes to line i+1
\* column 0, and no text is lost.
C10_EnterSplits ==
    [][ (ValidCursor /\ key' = "ENTER") =>
           /\ EditingActive'
           /\ LineIdx' = LineIdx + 1
           /\ Col' = 0
           /\ EffLines' = SubSeq(EffLines, 1, LineIdx)
                          \o << SubSeq(EffLines[LineIdx + 1], 1, Col),
                                SubSeq(EffLines[LineIdx + 1], Col + 1,
                                       Len(EffLines[LineIdx + 1])) >>
                          \o SubSeq(EffLines, LineIdx + 2, Len(EffLines))
           /\ written(EffLines') = written(EffLines)
      ]_vars

\* C11: Backspace at column 0, in the editor and in the viewer: on a line
\* i > 0 the line is joined onto line i-1 (previous content + current content),
\* the line count drops by one and the cursor goes to line i-1 at the length
\* the previous line had; on line 0 buffer, overlay and cursor stay as they are.
C11_BackspaceJoins ==
    [][ (ValidCursor /\ Col = 0 /\ key' = "BACKSPACE") =>
           IF LineIdx > 0
           THEN /\ EditingActive'
                /\ LineIdx' = LineIdx - 1
                /\ Col' = Len(EffLines[LineIdx])
                /\ Len(EffLines') = Len(EffLines) - 1
                /\ EffLines' = SubSeq(EffLines, 1, LineIdx - 1)
                               \o <<EffLines[LineIdx] \o EffLines[LineIdx + 1]>>
                               \o SubSeq(EffLines, LineIdx + 2, Len(EffLines))
           ELSE UNCHANGED <<lines, modified_lines, current_line,
                            current_edit_line, cursor_pos, cursor_position>>
      ]_vars

\* the line a MoveUp or MoveDown token must make the current edit line
VerticalTarget(k, i, n) ==
    IF k = "UP" THEN (IF i > 0 THEN i - 1 ELSE i)
    ELSE (IF i < n - 1 THEN i + 1 ELSE i)

\* C12: in InlineEdit, MoveUp on edit line i > 0 makes i-1 the current edit
\* line and MoveDown on i < line_count-1 makes it i+1 (no move at the bounds),
\* the column clamped to the new line's length; a character typed next
\* changes the line moved to.
C12_VerticalMoveChangesLine ==
    [][ /\ (pc = "viewer" /\ editing_line /\ key' \in {"UP", "DOWN"}) =>
              LET target == VerticalTarget(key', current_edit_line, Len(lines)) IN
              /\ editing_line'
              /\ current_edit_line' = target
              /\ cursor_position' =
                    Min(cursor_position,
                        Len(viewer_content(lines, modified_lines, target)))
        /\ (pc = "viewer" /\ editing_line /\ key \in {"UP", "DOWN"}
              /\ key' \in Chars) =>
              /\ current_edit_line \in DOMAIN modified_lines'
              /\ \A j \in DOMAIN modified_lines' \ {current_edit_line} :
                    j \in DOMAIN modified_lines
                    /\ modified_lines'[j] = modified_lines[j]
      ]_vars

\* C13: Delete at column k of a line L, in the editor and in the viewer: if
\* k < len(L) the line becomes L[:k]+L[k+1:] and the column stays k; at the end
\* of the line nothing changes.
C13_Delete ==
    [][ (ValidCursor /\ key' = "DELETE") =>
           LET L == EffLines[LineIdx + 1] IN
           /\ EditingActive'
           /\ LineIdx' = LineIdx
           /\ Col' = Col
           /\ EffLines' =
                 IF Col < Len(L)
                 THEN [EffLines EXCEPT ![LineIdx + 1] =
                          SubSeq(L, 1, Col) \o SubSeq(L, Col + 2, Len(L))]
                 ELSE EffLines
      ]_vars

\* C14: overlay precedence in the viewer: once the overlay holds an entry for
\* a line, the display, every editing token (character, Backspace, Delete,
\* Enter), the LineReplace prompt and save read the overlay entry and not the
\* buffer line, so that successive edits of one line compose.
C14_OverlayPrecedence ==
    [][ (pc = "viewer" /\ modified_lines # <<>>) =>
           /\ \A i \in DOMAIN modified_lines :
                 line_content(lines, modified_lines, i) = rstrip(modified_lines[i])
           /\ (editing_line /\ current_edit_line \in DOMAIN modified_lines) =>
                 LET L == rstrip(modified_lines[current_edit_line])
                     k == cursor_position
                     new == modified_lines'[current_edit_line]
                 IN  /\ key' \in Chars =>
                           new = Typed(L, k, key', insert_mode) \o <<NL>>
                     /\ (key' = "BACKSPACE" /\ k > 0) =>
                           new = SubSeq(L, 1, k - 1) \o SubSeq(L, k + 1, Len(L))
                                 \o <<NL>>
                     /\ (key' = "DELETE" /\ k < Len(L)) =>
                           new = SubSeq(L, 1, k) \o SubSeq(L, k + 2, Len(L))
                                 \o <<NL>>
                     /\ (key' = "ENTER" /\ k < Len(L)) =>
                           new = SubSeq(L, 1, k) \o <<NL>>
           /\ (~editing_line /\ edit_mode /\ key' = "ENTER"
                 /\ current_line \in DOMAIN modified_lines) =>
                 modified_lines'[current_line] \in
                    {strip(t) \o <<NL>> : t \in LineInputs}
           /\ (key' = "S" /\ save_result' = "ok") =>
                 disk' = File(written([i \in 1..Len(lines) |->
                                 IF (i - 1) \in DOMAIN modified_lines
                                 THEN modified_lines[i - 1] ELSE lines[i]]))
      ]_vars

\* a second character edit has been applied on top of a pending overlay entry
C14_Witness ==
    /\ pc = "viewer"
    /\ editing_line
    /\ key \in Chars
    /\ ops = 2
    /\ current_edit_line \in DOMAIN modified_lines
    /\ Len(rstrip(modified_lines[current_edit_line]))
          = Len(rstrip(lines[current_edit_line + 1])) + 2

\* C15: ExplicitDiscard (CTRL_D) in InlineEdit removes the overlay entry of the
\* current edit line only, keeps every other overlay entry and the buffer, and
\* returns to Viewing.
C15_ExplicitDiscard ==
    [][ (pc = "viewer" /\ editing_line /\ key' = "CTRL_D") =>
           /\ pc' = "viewer"
           /\ ~editing_line'
           /\ lines' = lines
           /\ DOMAIN modified_lines' = DOMAIN modified_lines \ {current_edit_line}
           /\ \A j \in DOMAIN modified_lines' : modified_lines'[j] = modified_lines[j]
      ]_vars

\* CTRL_D has been handled on a line without an entry left, while another
\* line's entry is still pending
C15_Witness ==
    /\ pc = "viewer"
    /\ key = "CTRL_D"
    /\ ~editing_line
    /\ ops = 2
    /\ current_edit_line = 1
    /\ DOMAIN modified_lines = {0}

\* C16: Finish/Escape in InlineEdit returns to Viewing and leaves the overlay,
\* the buffer and the files as they are: pending entries stay pending.
C16_EscapeKeepsOverlay ==
    [][ (pc = "viewer" /\ editing_line /\ key' = "ESCAPE") =>
           /\ pc' = "viewer"
           /\ ~editing_line'
           /\ modified_lines' = modified_lines
           /\ lines' = lines
           /\ disk' = disk
           /\ backup' = backup
      ]_vars

\* an inline session that left a pending entry has been finished with ESCAPE
C16_Witness ==
    /\ pc = "viewer"
    /\ key = "ESCAPE"
    /\ ~editing_line
    /\ file_modified
    /\ current_edit_line \in DOMAIN modified_lines
    /\ disk.data = written(lines)

\* the tokens that end an InlineEdit session
ExitTokens == {"ESCAPE", "CTRL_S", "CTRL_D"}

\* in InlineEdit exactly the exit tokens return to Viewing; in Viewing no token
\* but E starts InlineEdit, so the LineReplace prompt run by ENTER begins and
\* ends in Viewing and never runs while InlineEdit is active
InlineEditLeftByExitTokensOnly ==
    /\ (pc = "viewer" /\ editing_line) =>
          /\ pc' = "viewer"
          /\ ~editing_line' <=> key' \in ExitTokens
    /\ (pc = "viewer" /\ ~editing_line /\ key' # "E") => ~editing_line'

\* C17 as amended: E received in Viewing mode enters InlineEdit on the current
\* line when edit mode is on, and only switches edit mode on (staying in
\* Viewing) when it is off; in InlineEdit exactly Escape, ExplicitSave and
\* ExplicitDiscard return to Viewing; LineReplace begins and ends within one
\* token of Viewing mode.
C17_ModeTransitions ==
    [][ /\ (pc = "viewer" /\ ~editing_line /\ key' = "E") =>
              IF edit_mode
              THEN editing_line' /\ current_edit_line' = current_line
              ELSE ~editing_line' /\ edit_mode'
        /\ InlineEditLeftByExitTokensOnly
      ]_vars

\* E has started InlineEdit on the current line, which is not the first
C17_Witness ==
    /\ pc = "viewer"
    /\ key = "E"
    /\ editing_line
    /\ current_line = 1
    /\ current_edit_line = 1
    /\ cursor_position = 0

\* C17 as stated: E received in Viewing mode enters InlineEdit on the current
\* line; in InlineEdit exactly Escape, ExplicitSave and ExplicitDiscard return
\* to Viewing; LineReplace begins and ends within one token.
C17_EditStartEntersInlineEdit ==
    [][ /\ (pc = "viewer" /\ ~editing_line /\ key' = "E") =>
              editing_line' /\ current_edit_line' = current_line
        /\ InlineEditLeftByExitTokensOnly
      ]_vars

\* C18: whenever an InlineEdit session or a LineReplace prompt ends, the
\* unsaved-changes flag reported to the caller is true exactly when an unsaved
\* overlay entry remains, and false when the overlay is empty.
C18_SessionResult ==
    [][ (pc = "viewer" /\ (\/ editing_line /\ ~editing_line'
                           \/ ~editing_line /\ edit_mode /\ key' = "ENTER")) =>
           (file_modified' <=> modified_lines' # <<>>)
      ]_vars

\* the indices of the lines whose effective content contains the term, case
\* ignored
EffectiveMatches(term) ==
    {i \in 0..(Len(lines) - 1) :
        contains(lower(term), lower(viewer_content(lines, modified_lines, i)))}

\* C19: a search returns exactly the ascending list of the line indices whose
\* effective content (overlay entry if present, else buffer line) contains the
\* term, case ignored.
C19_SearchUsesEffectiveContent ==
    [][ (pc = "viewer" /\ ~editing_line /\ key' = "/" /\ search_term' # <<>>) =>
           /\ {search_results'[p] : p \in 1..Len(search_results')}
                 = EffectiveMatches(search_term')
           /\ \A p, q \in 1..Len(search_results') :
                 p < q => search_results'[p] < search_results'[q]
      ]_vars

\* C20: the pointer a search with matches starts at: the position of the
\* anchor line if it is a match, else of the first match after the anchor,
\* else 0; the current line becomes the match at the pointer.  For the buffer
\* a, b, a, c, the term "a" and anchor 2 the matches are 0, 2 and the pointer
\* is 1.
C20_SearchAnchor ==
    [][ (pc = "viewer" /\ ~editing_line /\ key' = "/" /\ search_results' # <<>>) =>
           LET R == search_results'
               a == current_line
               p == search_index'
           IN  /\ p \in 0..(Len(R) - 1)
               /\ IF \E q \in 1..Len(R) : R[q] = a
                  THEN R[p + 1] = a
                  ELSE IF \E q \in 1..Len(R) : R[q] > a
                       THEN R[p + 1] > a /\ \A q \in 1..p : R[q] < a
                       ELSE p = 0
               /\ current_line' = R[p + 1]
               /\ (/\ lines = << <<"a", NL>>, <<"b", NL>>, <<"a", NL>>, <<"c", NL>> >>
                   /\ search_term' = <<"a">>
                   /\ a = 2) => (R = <<0, 2>> /\ p = 1)
      ]_vars

\* the search of the example has been made: matches 0 and 2, pointer 1
C20_Witness ==
    /\ pc = "viewer"
    /\ key = "/"
    /\ lines = << <<"a", NL>>, <<"b", NL>>, <<"a", NL>>, <<"c", NL>> >>
    /\ search_term = <<"a">>
    /\ search_results = <<0, 2>>
    /\ search_index = 1
    /\ current_line = 2

\* the session state a token without effect must leave alone
sessionVars == <<lines, current_line, insert_mode, editorVars, viewerVars>>

\* C21: with a non-empty match list the pointer is a valid position of the
\* list; SearchNext moves it to (pointer+1) mod len and SearchPrev to
\* (pointer-1) mod len, and the current line becomes the match at the new
\* pointer; with an empty match list both tokens change nothing.
C21_SearchPointer ==
    [][ pc = "viewer" =>
           LET n == Len(search_results) IN
           /\ n > 0 => (0 <= search_index /\ search_index < n)
           /\ Len(search_results') > 0 =>
                 (0 <= search_index' /\ search_index' < Len(search_results'))
           /\ (~editing_line /\ key' \in {"N", "P"}) =>
                 IF n > 0
                 THEN /\ search_results' = search_results
                      /\ search_index' = IF key' = "N"
                                         THEN (search_index + 1) % n
                                         ELSE (search_index + n - 1) % n
                      /\ current_line' = search_results[search_index' + 1]
                 ELSE UNCHANGED sessionVars
      ]_vars

\* SearchNext has wrapped from the last of two matches to the first
C21_Witness ==
    /\ pc = "viewer"
    /\ key = "N"
    /\ Len(search_results) = 2
    /\ search_index = 0
    /\ current_line = search_results[1]

\* the window the viewport calculation must give
Window(total_lines, cur, visible_rows) ==
    LET start == Max(0, cur - (visible_rows \div 2)) IN
    [start |-> start, end |-> Min(total_lines, start + visible_rows)]

\* C22: on every render, with visible_rows taken from the terminal size of
\* that render, the window shown is start = max(0, current_line - visible_rows
\* div 2), end = min(total_lines, start + visible_rows), in the editor and in
\* the viewer.
C22_ViewportWindow ==
    \A rows \in TerminalRows :
       /\ pc = "editor" =>
             editor_window(lines, current_line, rows)
                = Window(Len(lines), current_line, rows - 6)
       /\ pc = "viewer" =>
             viewer_window(lines, modified_lines, current_line, rows)
                = Window(Len(lines), current_line, rows - 6)

\* a token that has no meaning where it arrives
MeaninglessToken ==
    \/ pc = "editor" /\ key' \in EditorUnhandled
    \/ pc = "viewer" /\ ~editing_line /\ key' \in ViewUnhandled
    \/ pc = "viewer" /\ editing_line /\ key' \in EditUnhandled

\* C23: the token handlers are total: in every session state, also of a
\* session opened on a zero-byte file, handling a token never raises, and a
\* token without meaning in the current mode leaves buffer, overlay, cursor
\* and mode unchanged.
C23_HandlersTotal ==
    [][ (pc = "editor" \/ pc = "viewer") =>
           /\ pc' # "raised"
           /\ MeaninglessToken => (sessionVars' = sessionVars)
      ]_vars

\* C24: after a successful save of a file that existed, in the editor and in
\* the viewer and for every save of a session, the backup holds exactly what
\* the file held on disk immediately before that save.
C24_BackupIsPreviousContent ==
    [][ (disk.exists /\ key' \in {"S", "CTRL_S"} /\ save_result' = "ok") =>
           backup' = File(disk.data)
      ]_vars

\* C25: a failed save in the editor leaves buffer and cursor unchanged and
\* the modified flag as it was, the session goes on, and a CTRL_S that follows
\* and succeeds writes the buffer and clears the flag.
C25_EditorFailedSave ==
    [][ /\ (pc = "editor" /\ key' = "CTRL_S" /\ SaveFailed') =>
              /\ pc' = "editor"
              /\ UNCHANGED <<lines, current_line, cursor_pos, insert_mode, modified>>
        /\ (pc = "editor" /\ key = "CTRL_S" /\ SaveFailed
              /\ key' = "CTRL_S" /\ save_result' = "ok") =>
              /\ disk' = File(written(lines))
              /\ ~modified'
      ]_vars

\* a save of an edited buffer has failed while writing the file
C25_Witness ==
    /\ pc = "editor"
    /\ key = "CTRL_S"
    /\ save_result = "write_failed"
    /\ modified
    /\ disk.data # written(lines)

\* a save request that follows a successful save with no token in between
SaveAfterSave ==
    /\ pc = "editor" \/ pc = "viewer"
    /\ key \in {"S", "CTRL_S"}
    /\ save_result = "ok"
    /\ key' = key

Replaced(ov, i, content, entered) ==
    IF entered # content
    THEN [j \in (DOMAIN ov) \cup {i} |-> IF j = i THEN entered \o <<NL>> ELSE ov[j]]
    ELSE ov

\* what a LineReplace leaves alone: buffer, current line, search state, mode
LineReplaceFrame ==
    /\ pc' = "viewer"
    /\ ~editing_line'
    /\ lines' = lines
    /\ current_line' = current_line
    /\ searchVars' = searchVars

\* C28 as amended: LineReplace (ENTER in edit mode) sets the overlay entry of
\* the current line to the entered text with leading and trailing whitespace
\* removed when that differs from the line's effective content, and leaves the
\* overlay untouched when it is equal; other entries, buffer, current line and
\* search state are unchanged and the mode is Viewing afterwards.
C28_LineReplace ==
    [][ (pc = "viewer" /\ ~editing_line /\ edit_mode /\ key' = "ENTER") =>
           /\ LineReplaceFrame
           /\ \E t \in LineInputs :
                 modified_lines' =
                    Replaced(modified_lines, current_line,
                             line_content(lines, modified_lines, current_line),
                             strip(t))
      ]_vars

\* a LineReplace has left the overlay untouched: the entered text, once
\* stripped, was the text of the line
C28_Witness ==
    /\ pc = "viewer"
    /\ key = "ENTER"
    /\ edit_mode
    /\ ~editing_line
    /\ ops = 1
    /\ file_modified
    /\ current_line = 1
    /\ modified_lines = <<>>

\* C28 as stated: LineReplace sets the overlay entry of the current line to
\* the entered text when it differs from the line's effective content and
\* leaves the overlay untouched when it is equal; other entries, buffer,
\* current line and search state are unchanged and the mode is Viewing.
C28_LineReplaceEnteredText ==
    [][ (pc = "viewer" /\ ~editing_line /\ edit_mode /\ key' = "ENTER") =>
           /\ LineReplaceFrame
           /\ \E t \in LineInputs :
                 modified_lines' =
                    Replaced(modified_lines, current_line,
                             line_content(lines, modified_lines, current_line), t)
      ]_vars

\* C29: ToggleInsert flips the insert-mode flag and changes nothing else, in
\* the editor and in InlineEdit; a second ToggleInsert therefore restores the
\* state.
C29_ToggleInsert ==
    [][ (EditingActive /\ key' = "INSERT") =>
           /\ insert_mode' = ~insert_mode
           /\ UNCHANGED <<pc, lines, current_line, editorVars, viewerVars, fsVars>>
      ]_vars

\* insert mode has been switched off during an inline edit with a pending entry
C29_Witness ==
    /\ pc = "viewer"
    /\ editing_line
    /\ key = "INSERT"
    /\ ~insert_mode
    /\ current_edit_line \in DOMAIN modified_lines
    /\ cursor_position > 0

\* C30: a search with an empty or whitespace-only term is not an error: the
\* match list and the active term are empty afterwards, and current line,
\* buffer and overlay are unchanged.
C30_EmptySearch ==
    [][ (pc = "viewer" /\ ~editing_line /\ key' = "/") =>
           /\ pc' = "viewer"
           /\ \A raw \in SearchInputs :
                 (\A p \in 1..Len(raw) : raw[p] = SP) =>
                    search_in_file(lines, current_line, raw)
                       = [results |-> <<>>, index |-> 0, term |-> <<>>]
           /\ search_term' = <<>> =>
                 /\ search_results' = <<>>
                 /\ current_line' = current_line
                 /\ lines' = lines
                 /\ modified_lines' = modified_lines
      ]_vars

\* an empty search has been made away from the first line, with an overlay
\* entry pending
C30_Witness ==
    /\ pc = "viewer"
    /\ key = "/"
    /\ search_term = <<>>
    /\ search_results = <<>>
    /\ current_line = 2
    /\ modified_lines # <<>>

\* the lines of the file on disk
DiskLines(f) == readlines(f.data)

\* C31: in the viewer, edits persisted by an earlier successful save are never
\* reverted by a later one: a later successful save that writes pending edits,
\* made while the file still has all its lines, leaves every line without a
\* pending overlay entry as it is on disk, so the line an earlier save wrote
\* keeps its edit.
C31_SavedEditsPersist ==
    [][ (/\ pc = "viewer"
         /\ key' = "S"
         /\ save_result' = "ok"
         /\ modified_lines # <<>>
         /\ Len(DiskLines(disk)) = Len(lines)) =>
           \A i \in 0..(Len(lines) - 1) :
              i \notin DOMAIN modified_lines =>
                 DiskLines(disk')[i + 1] = DiskLines(disk)[i + 1]
      ]_vars

\* the contents of the lines of a buffer, terminators excluded
Contents(ls) == [i \in 1..Len(ls) |-> rstrip(ls[i])]

\* C32: save/reload round trip in the editor: after a successful save, loading
\* the saved file again gives a buffer with the same number of lines and the
\* same line contents (terminators excluded) as the buffer had at save time.
C32_SaveReloadRoundTrip ==
    (pc = "editor" /\ key = "CTRL_S" /\ save_result = "ok") =>
        /\ disk.exists
        /\ Contents(readlines(disk.data)) = Contents(lines)

\* the operations of save_file that run before the file is truncated
BeforeTruncation ==
    {"save_backup_open", "save_read_original", "save_backup_write",
     "save_file_open"}

\* the backup write of the traced save_file call has completed
BackupWritten ==
    \/ pc \in {"save_file_open", "save_file_write"}
    \/ pc = "editor" /\ key = "CTRL_S" /\ save_result \in {"write_failed", "ok"}

\* C33: with save_file run as its individual file steps (truncate backup, read
\* original, write backup, truncate original, write lines), any of which may
\* fail, in every intermediate and final state at least one of the two files
\* holds the complete pre-save content of the original: the original path
\* until its truncation, the backup once the backup write has completed.
C33_PreSaveContentKept ==
    saving.pre.exists =>
        /\ disk = saving.pre \/ backup = saving.pre
        /\ pc \in BeforeTruncation => disk = saving.pre
        /\ BackupWritten => backup = saving.pre

\* the file has been truncated and is partly rewritten with edited lines,
\* while the backup holds what the file held before the save
C33_Witness ==
    /\ pc = "save_file_write"
    /\ saving.pre.exists
    /\ saving.pre.data # <<>>
    /\ saving.n = 1
    /\ modified
    /\ disk # saving.pre
    /\ backup = saving.pre

\* the buffer load_file builds from a file
Loaded(f) == IF f.exists THEN readlines(f.data) ELSE << <<>> >>

\* the editor session is running, possibly inside save_file
EditorRunning == pc # "viewer" /\ pc # "quit" /\ pc # "raised"

\* C34: in the editor, whenever the modified flag is false the buffer's lines
\* are the lines last loaded from disk or last successfully written to it:
\* the session starts unmodified on the loaded lines, a step that ends with
\* the flag false either found it false and left the lines alone or is a
\* successful save of exactly these lines; every token that changes a buffer
\* line sets the flag, and only a successful save resets it.
C34_ModifiedFlag ==
    /\ (key = "" /\ pc = "editor") => (~modified /\ lines = Loaded(disk))
    /\ [][ EditorRunning =>
              /\ lines' # lines =>
                    (modified' /\ key' \in Chars \cup {"ENTER", "BACKSPACE"})
              /\ ~modified' =>
                    \/ ~modified /\ lines' = lines
                    \/ /\ key' = "CTRL_S"
                       /\ save_result' = "ok"
                       /\ lines' = lines
                       /\ disk' = File(written(lines))
              /\ (modified /\ ~modified') =>
                    (key' = "CTRL_S" /\ save_result' = "ok")
         ]_vars

\* an edited buffer has been saved: the flag is false again and the buffer is
\* what was written, which is not what was loaded
C34_Witness ==
    /\ pc = "editor"
    /\ key = "CTRL_S"
    /\ save_result = "ok"
    /\ ~modified
    /\ disk = File(written(lines))
    /\ backup.exists
    /\ backup # disk

WindowHolds(w, total_lines, cur, visible_rows) ==
    /\ 0 <= w.start
    /\ w.start <= cur
    /\ cur < w.end
    /\ w.end <= total_lines
    /\ w.end - w.start <= visible_rows

\* C36: for every total_lines >= 1, every current_line in [0, total_lines-1]
\* and every visible_rows >= 1, the window computed by both renderers
\* satisfies 0 <= start <= current_line < end <= total_lines and
\* end - start <= visible_rows: the current line is inside the window shown.
C36_CurrentLineInWindow ==
    \A rows \in NavRows :
       /\ pc = "editor" =>
             WindowHolds(editor_window(lines, current_line, rows),
                         Len(lines), current_line, rows - 6)
       /\ pc = "viewer" =>
             WindowHolds(viewer_window(lines, modified_lines, current_line, rows),
                         Len(lines), current_line, rows - 6)

\* the editor is on the last of eight lines: on a terminal with four visible
\* rows the window has scrolled to the end of the file
C36_Witness ==
    /\ pc = "editor"
    /\ key = "DOWN"
    /\ Len(lines) = 8
    /\ current_line = 7
    /\ editor_window(lines, current_line, 10) = [start |-> 5, end |-> 8]

\* C37: whenever the whole file fits on the screen (total_lines <= visible
\* rows), the window computed by each renderer is [0, total_lines): every line
\* of the file is displayed, whatever the current line is.
C37_WholeFileShown ==
    \A rows \in NavRows :
       Len(lines) <= rows - 6 =>
          /\ pc = "editor" =>
                editor_window(lines, current_line, rows)
                   = [start |-> 0, end |-> Len(lines)]
          /\ pc = "viewer" =>
                viewer_window(lines, modified_lines, current_line, rows)
                   = [start |-> 0, end |-> Len(lines)]

\* C38: in the viewer's Viewing mode, after any sequence of UP, DOWN,
\* PAGE_UP/LEFT, PAGE_DOWN/RIGHT, HOME, END, search, N, P and R tokens the
\* current line is within [0, line_count-1]; UP and DOWN move it by exactly
\* one and the page keys by lines_per_page, saturating at the first and the
\* last line.
C38_ViewerNavigation ==
    /\ pc = "viewer" => (0 <= current_line /\ current_line <= Len(lines) - 1)
    /\ [][ (pc = "viewer" /\ ~editing_line) =>
              LET last == Len(lines) - 1 IN
              /\ 0 <= current_line' /\ current_line' <= Len(lines') - 1
              /\ key' = "UP" =>
                    current_line' = IF current_line >= 1
                                    THEN current_line - 1 ELSE 0
              /\ key' = "DOWN" =>
                    current_line' = IF current_line + 1 <= last
                                    THEN current_line + 1 ELSE last
              /\ key' \in {"PAGE_UP", "LEFT"} =>
                    \E rows \in TerminalRows :
                       LET page == lines_per_page(rows) IN
                       current_line' = IF current_line >= page
                                       THEN current_line - page ELSE 0
              /\ key' \in {"PAGE_DOWN", "RIGHT"} =>
                    \E rows \in TerminalRows :
                       LET page == lines_per_page(rows) IN
                       current_line' = IF current_line + page <= last
                                       THEN current_line + page ELSE last
         ]_vars

\* PAGE_DOWN has moved the current line by a whole page of five lines, short
\* of the last line
C38_Witness ==
    /\ pc = "viewer"
    /\ key = "PAGE_DOWN"
    /\ Len(lines) = 8
    /\ current_line = 5

\* C39: in the editor every single printable character token, every letter
\* included, is handled by the insert/overwrite branch: the session goes on,
\* the character stands in the current line at the column the cursor had, the
\* cursor is one column further and the buffer is flagged as modified; no
\* printable character is consumed as a command.
C39_PrintableIsTyped ==
    [][ (pc = "editor" /\ HasLine /\ key' \in Chars) =>
           /\ pc' = "editor"
           /\ current_line' = current_line
           /\ cursor_pos' = cursor_pos + 1
           /\ Len(rstrip(lines'[current_line + 1])) >= cursor_pos + 1
           /\ rstrip(lines'[current_line + 1])[cursor_pos + 1] = key'
           /\ modified'
      ]_vars

====
